---- MODULE Spec2Model ----
(***************************************************************************)
(* State-machine model of the vulkan-playground programs:                  *)
(*   - the triangle render loop       (src/src/bin/triangle/main.rs)       *)
(*   - the Mandelbrot one-shot compute (src/src/bin/mandelbrot/main.rs)    *)
(*   - Interface::new_compute          (src/src/vk_util/interface.rs)      *)
(*   - UVec2 conversions               (src/src/vk_util/vec.rs)            *)
(* The platform (Vulkan driver, window system) is the environment: every   *)
(* fallible platform call is a nondeterministic choice over its outcomes.  *)
(***************************************************************************)
EXTENDS Integers, Sequences, FiniteSets, TLC

\* ------------------------------------------------------------------ bounds
\* Redraw ticks explored by the triangle loop.
MaxTicks == 3
\* Window sizes are 1..MaxSize (one number stands for a width x height pair).
MaxSize == 2
\* Images of a swapchain (caps.min_image_count, given by the platform).
NumImages == 2

VARIABLES
    \* ---- triangle render loop
    pc,                  \* position of the event handler / of the process
    control_flow,        \* *control_flow
    recreate_swapchain,  \* the stale flag
    swapchain,           \* the current swapchain
    framebuffers,        \* one framebuffer per swapchain image
    dynamic_state,       \* dynamic_state.viewports
    previous_frame_end,  \* Option<Box<dyn GpuFuture>>
    window_size,         \* surface.window().inner_size(), owned by the platform
    resize_pending,      \* a Resized event waits in the platform's queue
    image_num,           \* local of the redraw tick
    suboptimal,          \* local of the redraw tick
    acquire_future,      \* local of the redraw tick
    command_buffer,      \* local of the redraw tick
    future,              \* local of the redraw tick: the flush's Result
    queue,               \* what the current redraw tick has given the device queue, in order
    stdout,              \* lines printed by the loop
    ticks,               \* redraw ticks started
    obs                  \* history: what the current (or last) redraw tick did, and
                         \* the event whose handler asked for the exit

triVars == <<pc, control_flow, recreate_swapchain, swapchain, framebuffers,
             dynamic_state, previous_frame_end, window_size, resize_pending,
             image_num, suboptimal, acquire_future, command_buffer, future,
             queue, stdout, ticks, obs>>

\* ---- Mandelbrot program
VARIABLES
    mpc,                 \* position in main
    trail,               \* the steps main has completed, in order
    gpu,                 \* the device: the submitted work and how far it got
    buf,                 \* the host-visible buffer: how many workgroups' pixels it holds
    buffer_content,      \* what buf.read() returned
    file                 \* image.png

manVars == <<mpc, trail, gpu, buf, buffer_content, file>>

\* ---- Interface::new_compute
VARIABLES
    devices,             \* what PhysicalDevice::enumerate yields: per device, its queue families
    ipc,                 \* position in new_compute
    physical,            \* the PhysicalDevice chosen
    queue_family,        \* the queue family chosen
    interface            \* the Interface returned

ifVars == <<devices, ipc, physical, queue_family, interface>>

\* ---- UVec2
VARIABLES
    vpc,                 \* position of the conversion
    input,               \* the (u32, u32) pair
    uvec2,               \* the UVec2 made from it
    extent               \* the Dimensions made from the UVec2

vecVars == <<vpc, input, uvec2, extent>>

vars == <<triVars, manVars, ifVars, vecVars>>

\* ------------------------------------------------------------ Option<T>
None == [some |-> FALSE]
Some(v) == [some |-> TRUE, value |-> v]

Sizes == 1..MaxSize
ImageIndices == 0..(NumImages - 1)

\* ------------------------------------------------------------ GpuFuture
\* sync::now(device)
SyncNow == [kind |-> "now"]
\* a.join(b)
Join(a, b) == [kind |-> "join", first |-> a, second |-> b]
\* f.then_execute(queue, command_buffer)
ThenExecute(f, cb) == [kind |-> "execute", previous |-> f, command_buffer |-> cb]
\* f.then_swapchain_present(queue, swapchain, image_num)
ThenSwapchainPresent(f, sc, img) ==
    [kind |-> "present", previous |-> f, swapchain |-> sc.id, image |-> img]
\* the FenceSignalFuture a successful then_signal_fence_and_flush returns: the
\* completion of the frame whose chain f was flushed, named by the tick of
\* the frame's command buffer
FenceSignal(f) == [kind |-> "fence", frame |-> f.previous.command_buffer.tick]

\* The queue operations a flush of the future f hands to the device, in the
\* order of the chain: whatever f is chained after goes first.  A fence
\* future was flushed when it was made; now and acquire futures hold no
\* queue operation.
RECURSIVE Submissions(_)
Submissions(f) ==
    CASE f.kind = "join" -> Submissions(f.first) \o Submissions(f.second)
      [] f.kind = "execute" ->
            Submissions(f.previous) \o
            <<[op |-> "draw", tick |-> f.command_buffer.tick,
               image |-> f.command_buffer.framebuffer.image,
               swapchain |-> f.command_buffer.framebuffer.swapchain,
               after |-> f.previous]>>
      [] f.kind = "present" ->
            Submissions(f.previous) \o
            <<[op |-> "present", image |-> f.image, swapchain |-> f.swapchain,
               after |-> f.previous]>>
      [] OTHER -> <<>>

\* ------------------------------------------------ swapchain and framebuffers
\* The images of a swapchain: NumImages images of the swapchain's dimensions.
SwapchainImages(sc) ==
    [i \in ImageIndices |-> [swapchain |-> sc.id, image |-> i, dimensions |-> sc.dimensions]]

\* window_size_dependent_setup: the framebuffers it returns, one per image.
WindowSizeDependentSetup(images) ==
    [i \in DOMAIN images |-> [swapchain |-> images[i].swapchain, image |-> images[i].image]]

\* window_size_dependent_setup: the viewport it stores in dynamic_state.
Viewport(images) == Some(images[0].dimensions)

\* swapchain.recreate_with_dimensions(dimensions), when it succeeds.
RecreateWithDimensions(sc, dimensions) == [id |-> sc.id + 1, dimensions |-> dimensions]

\* What obs holds when no redraw tick has started.
NoTick ==
    [stale_at_start |-> FALSE, swapchain_at_start |-> None, framebuffers_at_start |-> None,
     previous_at_start |-> None, stdout_at_start |-> 0,
     recreate |-> "none", dimensions |-> None, acquire |-> "none", image |-> None,
     stale_at_acquire |-> FALSE,
     recorded |-> None, chain |-> None, flush |-> "none", panic |-> "none",
     previous |-> [recreate |-> "none", acquire |-> "none", flush |-> "none"],
     exit_requested_by |-> "none"]

\* ------------------------------------------------------------------ Init
\* main, lines 44..205: the state when event_loop.run is entered.
TriInit ==
    /\ pc = "idle"
    /\ control_flow = "Poll"
    /\ recreate_swapchain = FALSE
    /\ window_size \in Sizes
    /\ swapchain = [id |-> 1, dimensions |-> window_size]
    /\ framebuffers = WindowSizeDependentSetup(SwapchainImages(swapchain))
    /\ dynamic_state = Viewport(SwapchainImages(swapchain))
    /\ previous_frame_end = Some(SyncNow)
    /\ resize_pending = FALSE
    /\ image_num = None
    /\ suboptimal = None
    /\ acquire_future = None
    /\ command_buffer = None
    /\ future = None
    /\ queue = <<>>
    /\ stdout = <<>>
    /\ ticks = 0
    /\ obs = NoTick

\* The variables of the other programs, which the render loop leaves alone.
others == <<manVars, ifVars, vecVars>>
\* The render loop when another program is the one that runs.
TriIdle ==
    /\ pc = "off"
    /\ control_flow = "Poll"
    /\ recreate_swapchain = FALSE
    /\ window_size = 1
    /\ swapchain = None
    /\ framebuffers = None
    /\ dynamic_state = None
    /\ previous_frame_end = None
    /\ resize_pending = FALSE
    /\ image_num = None
    /\ suboptimal = None
    /\ acquire_future = None
    /\ command_buffer = None
    /\ future = None
    /\ queue = <<>>
    /\ stdout = <<>>
    /\ ticks = 0
    /\ obs = NoTick

locals == <<image_num, suboptimal, acquire_future, command_buffer, future>>
resources == <<swapchain, framebuffers, dynamic_state>>

\* The handler returns: its locals are dropped.
DropLocals ==
    /\ image_num' = None
    /\ suboptimal' = None
    /\ acquire_future' = None
    /\ command_buffer' = None
    /\ future' = None

\* ---------------------------------------------------------- the platform
\* The user resizes the window: the platform changes the size and queues a
\* Resized event.  The size is read by the handler only where the swapchain is
\* recreated, and the event is delivered only between two handler runs, so a
\* resize during the later steps of a tick is the same resize at the end of it.
WindowResize ==
    /\ pc \in {"idle", "recreate"}
    /\ \E s \in Sizes \ {window_size} : window_size' = s
    /\ resize_pending' = TRUE
    /\ UNCHANGED <<pc, control_flow, recreate_swapchain, resources,
                   previous_frame_end, locals, queue, stdout, ticks, obs>>
    /\ UNCHANGED others

\* ------------------------------------------------------- event handlers
\* Event::WindowEvent { event: WindowEvent::CloseRequested, .. }
CloseRequested ==
    /\ pc = "idle"
    /\ control_flow' = "Exit"
    /\ obs' = [obs EXCEPT !.exit_requested_by = "CloseRequested"]
    /\ UNCHANGED <<pc, recreate_swapchain, resources, previous_frame_end, window_size,
                   resize_pending, locals, queue, stdout, ticks>>
    /\ UNCHANGED others

\* Resized asking for the exit as well, as the CloseRequested arm does.
ResizedExits ==
    /\ pc = "idle"
    /\ resize_pending
    /\ resize_pending' = FALSE
    /\ recreate_swapchain' = TRUE
    /\ control_flow' = "Exit"
    /\ obs' = [obs EXCEPT !.exit_requested_by = "Resized"]
    /\ UNCHANGED <<pc, resources, previous_frame_end, window_size,
                   locals, queue, stdout, ticks>>
    /\ UNCHANGED others

\* Event::WindowEvent { event: WindowEvent::Resized(_), .. }
Resized ==
    /\ pc = "idle"
    /\ resize_pending
    /\ resize_pending' = FALSE
    /\ recreate_swapchain' = TRUE
    /\ UNCHANGED <<pc, control_flow, resources, previous_frame_end, window_size,
                   locals, queue, stdout, ticks, obs>>
    /\ UNCHANGED others

\* _ => ()
OtherEvent ==
    /\ pc = "idle"
    /\ UNCHANGED <<pc, control_flow, recreate_swapchain, resources, previous_frame_end,
                   window_size, resize_pending, locals, queue, stdout, ticks, obs>>
    /\ UNCHANGED others

\* event_loop.run returns control to the platform for good once the handler
\* has left *control_flow at Exit.
LoopExit ==
    /\ pc = "idle"
    /\ control_flow = "Exit"
    /\ pc' = "exited"
    /\ UNCHANGED <<control_flow, recreate_swapchain, resources, previous_frame_end,
                   window_size, resize_pending, locals, queue, stdout, ticks, obs>>
    /\ UNCHANGED others

\* RedrawEventsCleared without the test of recreate_swapchain: the tick
\* acquires from the swapchain it has.
RedrawWithoutRecreate ==
    /\ pc = "idle"
    /\ ticks < MaxTicks
    /\ ticks' = ticks + 1
    /\ obs' = [NoTick EXCEPT !.stale_at_start = recreate_swapchain,
                             !.swapchain_at_start = Some(swapchain),
                             !.framebuffers_at_start = Some(framebuffers),
                             !.previous_at_start = previous_frame_end,
                             !.stdout_at_start = Len(stdout),
                             !.panic = IF previous_frame_end.some THEN "none"
                                       ELSE "cleanup_finished",
                             !.exit_requested_by = obs.exit_requested_by,
                             !.previous = [recreate |-> obs.recreate,
                                           acquire |-> obs.acquire,
                                           flush |-> obs.flush]]
    /\ queue' = <<>>
    /\ pc' = IF ~previous_frame_end.some THEN "panicked" ELSE "acquire"
    /\ UNCHANGED <<control_flow, recreate_swapchain, resources, previous_frame_end,
                   window_size, resize_pending, locals, stdout>>
    /\ UNCHANGED others

\* Event::RedrawEventsCleared, up to the test of recreate_swapchain:
\* previous_frame_end.as_mut().unwrap().cleanup_finished().
RedrawEventsCleared ==
    /\ pc = "idle"
    /\ ticks < MaxTicks
    /\ ticks' = ticks + 1
    /\ obs' = [NoTick EXCEPT !.stale_at_start = recreate_swapchain,
                             !.swapchain_at_start = Some(swapchain),
                             !.framebuffers_at_start = Some(framebuffers),
                             !.previous_at_start = previous_frame_end,
                             !.stdout_at_start = Len(stdout),
                             !.panic = IF previous_frame_end.some THEN "none"
                                       ELSE "cleanup_finished",
                             !.exit_requested_by = obs.exit_requested_by,
                             !.previous = [recreate |-> obs.recreate,
                                           acquire |-> obs.acquire,
                                           flush |-> obs.flush]]
    /\ queue' = <<>>
    /\ pc' = IF ~previous_frame_end.some THEN "panicked"
             ELSE IF recreate_swapchain THEN "recreate" ELSE "acquire"
    /\ UNCHANGED <<control_flow, recreate_swapchain, resources, previous_frame_end,
                   window_size, resize_pending, locals, stdout>>
    /\ UNCHANGED others


\* RecreateOk without the assignment of framebuffers: the list keeps the
\* framebuffers of the swapchain that was replaced.
RecreateOkKeepsFramebuffers ==
    /\ pc = "recreate"
    /\ LET dims == window_size
           new_swapchain == RecreateWithDimensions(swapchain, dims)
           new_images == SwapchainImages(new_swapchain)
       IN  /\ swapchain' = new_swapchain
           /\ framebuffers' = framebuffers
           /\ dynamic_state' = Viewport(new_images)
           /\ obs' = [obs EXCEPT !.recreate = "ok", !.dimensions = Some(dims)]
    /\ recreate_swapchain' = FALSE
    /\ pc' = "acquire"
    /\ UNCHANGED <<control_flow, previous_frame_end, window_size, resize_pending,
                   locals, queue, stdout, ticks>>
    /\ UNCHANGED others

\* swapchain.recreate_with_dimensions(dimensions) is Ok: the swapchain, the
\* framebuffers and the viewport are replaced and the stale flag is cleared.
RecreateOk ==
    /\ pc = "recreate"
    /\ LET dims == window_size
           new_swapchain == RecreateWithDimensions(swapchain, dims)
           new_images == SwapchainImages(new_swapchain)
       IN  /\ swapchain' = new_swapchain
           /\ framebuffers' = WindowSizeDependentSetup(new_images)
           /\ dynamic_state' = Viewport(new_images)
           /\ obs' = [obs EXCEPT !.recreate = "ok", !.dimensions = Some(dims)]
    /\ recreate_swapchain' = FALSE
    /\ pc' = "acquire"
    /\ UNCHANGED <<control_flow, previous_frame_end, window_size, resize_pending,
                   locals, queue, stdout, ticks>>
    /\ UNCHANGED others

\* swapchain.recreate_with_dimensions(dimensions) is Ok and one of the
\* unwrap()s of window_size_dependent_setup fails: the swapchain and the
\* viewport are the new ones, the framebuffers and the stale flag are not
\* assigned.
RecreateSetupPanic ==
    /\ pc = "recreate"
    /\ LET dims == window_size
           new_swapchain == RecreateWithDimensions(swapchain, dims)
           new_images == SwapchainImages(new_swapchain)
       IN  /\ swapchain' = new_swapchain
           /\ dynamic_state' = Viewport(new_images)
           /\ obs' = [obs EXCEPT !.recreate = "ok", !.dimensions = Some(dims),
                                 !.panic = "window_size_dependent_setup"]
    /\ pc' = "panicked"
    /\ UNCHANGED <<control_flow, recreate_swapchain, framebuffers, previous_frame_end,
                   window_size, resize_pending, locals, queue, stdout, ticks>>
    /\ UNCHANGED others

\* RecreateUnsupported with the stale flag cleared before the match: the next
\* tick would not try again.
RecreateUnsupportedClearsFlag ==
    /\ pc = "recreate"
    /\ obs' = [obs EXCEPT !.recreate = "unsupported", !.dimensions = Some(window_size)]
    /\ recreate_swapchain' = FALSE
    /\ pc' = "idle"
    /\ UNCHANGED <<control_flow, resources, previous_frame_end,
                   window_size, resize_pending, locals, queue, stdout, ticks>>
    /\ UNCHANGED others

\* Err(SwapchainCreationError::UnsupportedDimensions) => return
RecreateUnsupported ==
    /\ pc = "recreate"
    /\ obs' = [obs EXCEPT !.recreate = "unsupported", !.dimensions = Some(window_size)]
    /\ pc' = "idle"
    /\ UNCHANGED <<control_flow, recreate_swapchain, resources, previous_frame_end,
                   window_size, resize_pending, locals, queue, stdout, ticks>>
    /\ UNCHANGED others

\* Err(e) => panic!("Failed to recreate swapchain: {:?}", e)
RecreatePanic ==
    /\ pc = "recreate"
    /\ obs' = [obs EXCEPT !.recreate = "panic", !.dimensions = Some(window_size),
                          !.panic = "recreate"]
    /\ pc' = "panicked"
    /\ UNCHANGED <<control_flow, recreate_swapchain, resources, previous_frame_end,
                   window_size, resize_pending, locals, queue, stdout, ticks>>
    /\ UNCHANGED others

\* AcquireOk without the `if suboptimal` that follows it.
AcquireOkIgnoresSuboptimal ==
    /\ pc = "acquire"
    /\ \E i \in ImageIndices, s \in BOOLEAN :
          /\ image_num' = Some(i)
          /\ suboptimal' = Some(s)
          /\ acquire_future' = Some([kind |-> "acquire", swapchain |-> swapchain.id,
                                     image |-> i, tick |-> ticks])
          /\ obs' = [obs EXCEPT !.acquire = IF s THEN "suboptimal" ELSE "ok",
                                !.stale_at_acquire = recreate_swapchain,
                                !.image = Some([swapchain |-> swapchain.id, image |-> i])]
    /\ pc' = "record"
    /\ UNCHANGED <<control_flow, recreate_swapchain, resources, previous_frame_end,
                   window_size, resize_pending, command_buffer, future, queue, stdout, ticks>>
    /\ UNCHANGED others

\* swapchain::acquire_next_image(swapchain.clone(), None) is Ok, and the
\* `if suboptimal` that follows it.
AcquireOk ==
    /\ pc = "acquire"
    /\ \E i \in ImageIndices, s \in BOOLEAN :
          /\ image_num' = Some(i)
          /\ suboptimal' = Some(s)
          /\ acquire_future' = Some([kind |-> "acquire", swapchain |-> swapchain.id,
                                     image |-> i, tick |-> ticks])
          /\ recreate_swapchain' = IF s THEN TRUE ELSE recreate_swapchain
          /\ obs' = [obs EXCEPT !.acquire = IF s THEN "suboptimal" ELSE "ok",
                                !.stale_at_acquire = recreate_swapchain,
                                !.image = Some([swapchain |-> swapchain.id, image |-> i])]
    /\ pc' = "record"
    /\ UNCHANGED <<control_flow, resources, previous_frame_end, window_size,
                   resize_pending, command_buffer, future, queue, stdout, ticks>>
    /\ UNCHANGED others

\* AcquireOutOfDate handled by the catch-all arm: a panic.
AcquireOutOfDateFatal ==
    /\ pc = "acquire"
    /\ obs' = [obs EXCEPT !.acquire = "out_of_date", !.panic = "acquire",
                          !.stale_at_acquire = recreate_swapchain]
    /\ pc' = "panicked"
    /\ UNCHANGED <<control_flow, recreate_swapchain, resources, previous_frame_end,
                   window_size, resize_pending, locals, queue, stdout, ticks>>
    /\ UNCHANGED others

\* Err(AcquireError::OutOfDate) => { recreate_swapchain = true; return; }
AcquireOutOfDate ==
    /\ pc = "acquire"
    /\ recreate_swapchain' = TRUE
    /\ obs' = [obs EXCEPT !.acquire = "out_of_date",
                          !.stale_at_acquire = recreate_swapchain]
    /\ pc' = "idle"
    /\ UNCHANGED <<control_flow, resources, previous_frame_end, window_size,
                   resize_pending, locals, queue, stdout, ticks>>
    /\ UNCHANGED others

\* Err(e) => panic!("Failed to acquire next image: {:?}", e)
AcquirePanic ==
    /\ pc = "acquire"
    /\ obs' = [obs EXCEPT !.acquire = "panic", !.panic = "acquire"]
    /\ pc' = "panicked"
    /\ UNCHANGED <<control_flow, recreate_swapchain, resources, previous_frame_end,
                   window_size, resize_pending, locals, queue, stdout, ticks>>
    /\ UNCHANGED others

\* The command buffer of the frame: begin_render_pass(framebuffers[image_num]),
\* draw with the dynamic state, end_render_pass, build.
RecordCommandBuffer ==
    /\ pc = "record"
    /\ command_buffer' = Some([framebuffer |-> framebuffers[image_num.value],
                               viewport |-> dynamic_state, tick |-> ticks])
    /\ obs' = [obs EXCEPT !.recorded = Some(framebuffers[image_num.value])]
    /\ pc' = "submit"
    /\ UNCHANGED <<control_flow, recreate_swapchain, resources, previous_frame_end,
                   window_size, resize_pending, image_num, suboptimal, acquire_future,
                   future, queue, stdout, ticks>>
    /\ UNCHANGED others

\* One of the unwrap()s of the recording fails, or the one of then_execute,
\* which comes after previous_frame_end.take().
RecordPanic ==
    /\ pc \in {"record", "submit"}
    /\ pc = "submit" => previous_frame_end.some
    /\ pc' = "panicked"
    /\ previous_frame_end' = IF pc = "submit" THEN None ELSE previous_frame_end
    /\ obs' = [obs EXCEPT !.panic = pc]
    /\ UNCHANGED <<control_flow, recreate_swapchain, resources,
                   window_size, resize_pending, locals, queue, stdout, ticks>>
    /\ UNCHANGED others

\* FrameChain without the join: the draw does not wait for the acquisition.
FrameChainWithoutAcquire(previous, acquired, cb, sc, img) ==
    ThenSwapchainPresent(ThenExecute(previous, cb), sc, img)

\* The chain of the frame: previous_frame_end.take().unwrap().join(acquire_future)
\* .then_execute(..).then_swapchain_present(..).
FrameChain(previous, acquired, cb, sc, img) ==
    ThenSwapchainPresent(ThenExecute(Join(previous, acquired), cb), sc, img)

\* What the device queue holds after a flush of chain that got as far as its
\* first k operations.
Flushed(q, chain, k) == q \o SubSeq(Submissions(chain), 1, k)

\* previous_frame_end.take() ... .then_signal_fence_and_flush(): the chain is
\* built and flushed.  The platform takes all of it (Ok), or fails at one of
\* its operations with OutOfDate or with another error.
SubmitAndPresent ==
    /\ pc = "submit"
    /\ IF ~previous_frame_end.some
       THEN /\ pc' = "panicked"
            /\ obs' = [obs EXCEPT !.panic = "take"]
            /\ UNCHANGED <<previous_frame_end, future, queue>>
       ELSE LET chain == FrameChain(previous_frame_end.value, acquire_future.value,
                                    command_buffer.value, swapchain, image_num.value)
                n == Len(Submissions(chain))
            IN  /\ previous_frame_end' = None
                /\ pc' = "match"
                /\ \/ /\ future' = Some([result |-> "Ok", value |-> FenceSignal(chain)])
                      /\ queue' = Flushed(queue, chain, n)
                      /\ obs' = [obs EXCEPT !.chain = Some(chain), !.flush = "Ok"]
                   \/ \E r \in {"OutOfDate", "Other"}, k \in 0..(n - 1) :
                      /\ future' = Some([result |-> r])
                      /\ queue' = Flushed(queue, chain, k)
                      /\ obs' = [obs EXCEPT !.chain = Some(chain), !.flush = r]
    /\ UNCHANGED <<control_flow, recreate_swapchain, resources, window_size,
                   resize_pending, image_num, suboptimal, acquire_future, command_buffer,
                   stdout, ticks>>
    /\ UNCHANGED others

\* MatchFuture with the last arm swallowing the error without the println!.
MatchFutureSilent ==
    /\ pc = "match"
    /\ LET r == future.value.result
       IN  /\ previous_frame_end' =
                 IF r = "Ok" THEN Some(future.value.value) ELSE Some(SyncNow)
           /\ recreate_swapchain' = IF r = "OutOfDate" THEN TRUE ELSE recreate_swapchain
    /\ DropLocals
    /\ pc' = "idle"
    /\ UNCHANGED <<control_flow, resources, window_size, resize_pending, queue,
                   stdout, ticks, obs>>
    /\ UNCHANGED others

\* MatchFuture with the last arm marking the swapchain stale, as the
\* OutOfDate arm does.
MatchFutureOtherMarksStale ==
    /\ pc = "match"
    /\ LET r == future.value.result
       IN  /\ previous_frame_end' =
                 IF r = "Ok" THEN Some(future.value.value) ELSE Some(SyncNow)
           /\ recreate_swapchain' = IF r # "Ok" THEN TRUE ELSE recreate_swapchain
           /\ stdout' = IF r = "Other" THEN Append(stdout, "Failed to flush future")
                         ELSE stdout
    /\ DropLocals
    /\ pc' = "idle"
    /\ UNCHANGED <<control_flow, resources, window_size, resize_pending, queue,
                   ticks, obs>>
    /\ UNCHANGED others

\* MatchFuture with the two Err arms leaving previous_frame_end as take()
\* left it.
MatchFutureErrLeavesNone ==
    /\ pc = "match"
    /\ LET r == future.value.result
       IN  /\ previous_frame_end' =
                 IF r = "Ok" THEN Some(future.value.value) ELSE previous_frame_end
           /\ recreate_swapchain' = IF r = "OutOfDate" THEN TRUE ELSE recreate_swapchain
           /\ stdout' = IF r = "Other" THEN Append(stdout, "Failed to flush future")
                         ELSE stdout
    /\ DropLocals
    /\ pc' = "idle"
    /\ UNCHANGED <<control_flow, resources, window_size, resize_pending, queue,
                   ticks, obs>>
    /\ UNCHANGED others

\* match future { Ok(future) => .., Err(FlushError::OutOfDate) => .., Err(e) => .. }
MatchFuture ==
    /\ pc = "match"
    /\ LET r == future.value.result
       IN  /\ previous_frame_end' =
                 IF r = "Ok" THEN Some(future.value.value) ELSE Some(SyncNow)
           /\ recreate_swapchain' = IF r = "OutOfDate" THEN TRUE ELSE recreate_swapchain
           /\ stdout' = IF r = "Other" THEN Append(stdout, "Failed to flush future")
                         ELSE stdout
    /\ DropLocals
    /\ pc' = "idle"
    /\ UNCHANGED <<control_flow, resources, window_size, resize_pending, queue,
                   ticks, obs>>
    /\ UNCHANGED others

\* ------------------------------------------------------- the render loop
TriNext ==
    \/ WindowResize
    \/ CloseRequested
    \/ Resized
    \/ OtherEvent
    \/ LoopExit
    \/ RedrawEventsCleared
    \/ RecreateOk
    \/ RecreateSetupPanic
    \/ RecreateUnsupported
    \/ RecreatePanic
    \/ AcquireOk
    \/ AcquireOutOfDate
    \/ AcquirePanic
    \/ RecordCommandBuffer
    \/ RecordPanic
    \/ SubmitAndPresent
    \/ MatchFuture

\* ===================================================== Interface::new_compute
\* Queue families of one device, each by whether it supports graphics.
MaxFamilies == 2
\* Physical devices the instance enumerates.
MaxDevices == 2

RECURSIVE SeqsUpTo(_, _)
\* The sequences over S of length 0..n.
SeqsUpTo(S, n) ==
    IF n = 0 THEN {<<>>}
    ELSE LET shorter == SeqsUpTo(S, n - 1)
         IN  shorter \cup {Append(q, x) : q \in shorter, x \in S}

\* A device is the sequence of its queue families (at least one).
DeviceKinds == SeqsUpTo(BOOLEAN, MaxFamilies) \ {<<>>}
DeviceLists == SeqsUpTo(DeviceKinds, MaxDevices)

\* InitPhysical taking the last device enumerated instead of the first.
InitPhysicalLast(devs) == IF Len(devs) = 0 THEN None ELSE Some(Len(devs))

\* PhysicalDevice::enumerate(instance).next(): the position of the device, if any.
InitPhysical(devs) == IF Len(devs) = 0 THEN None ELSE Some(1)

\* physical.queue_families().find(|&q| q.supports_graphics()): the position of
\* the family, if any.
FindGraphics(families) ==
    IF \E i \in 1..Len(families) : families[i]
    THEN Some(CHOOSE i \in 1..Len(families) :
                 /\ families[i]
                 /\ \A j \in 1..(i - 1) : ~families[j])
    ELSE None

IfIdle ==
    /\ devices = <<>>
    /\ ipc = "off"
    /\ physical = None
    /\ queue_family = None
    /\ interface = None

IfInit ==
    /\ devices \in DeviceLists
    /\ ipc = "init_instance"
    /\ physical = None
    /\ queue_family = None
    /\ interface = None

notInterface == <<triVars, manVars, vecVars>>

\* Self::init_instance(): Instance::new(..).expect("create vulkan instance")
IfInitInstance ==
    /\ ipc = "init_instance"
    /\ \E ok \in BOOLEAN : ipc' = IF ok THEN "init_physical" ELSE "panicked: create vulkan instance"
    /\ UNCHANGED <<devices, physical, queue_family, interface>>
    /\ UNCHANGED notInterface

\* Self::init_physical(&instance)
IfInitPhysical ==
    /\ ipc = "init_physical"
    /\ physical' = InitPhysical(devices)
    /\ ipc' = IF physical'.some THEN "find_queue_family"
              ELSE "panicked: no vulkan device available"
    /\ UNCHANGED <<devices, queue_family, interface>>
    /\ UNCHANGED notInterface

\* init_device_queue: the queue family of the device
IfFindQueueFamily ==
    /\ ipc = "find_queue_family"
    /\ queue_family' = FindGraphics(devices[physical.value])
    /\ ipc' = IF queue_family'.some THEN "device_new" ELSE "panicked: no queue family"
    /\ UNCHANGED <<devices, physical, interface>>
    /\ UNCHANGED notInterface

\* init_device_queue: Device::new(..).unwrap(), queues.next().unwrap(), and the
\* Interface of new_compute
IfDeviceNew ==
    /\ ipc = "device_new"
    /\ \E ok \in BOOLEAN :
          IF ok
          THEN /\ interface' = Some([device |-> physical.value,
                                     queue_family |-> queue_family.value])
               /\ ipc' = "done"
          ELSE /\ interface' = interface
               /\ ipc' = "panicked: device"
    /\ UNCHANGED <<devices, physical, queue_family>>
    /\ UNCHANGED notInterface

IfNext ==
    \/ IfInitInstance
    \/ IfInitPhysical
    \/ IfFindQueueFamily
    \/ IfDeviceNew

\* ================================================================== UVec2
\* The u32 values tried: 0..MaxDim and the extent of the Mandelbrot image.
MaxDim == 8
ImageExtent == 1024
U32Samples == (0..MaxDim) \cup {ImageExtent}

\* impl From<(u32, u32)> for UVec2: UVec2(v.0, v.1); field .0 is position 1.
UVec2From(v) == <<v[1], v[2]>>

\* IntoDimensions with the two fields swapped.
IntoDimensionsSwapped(u) == [kind |-> "Dim2d", width |-> u[2], height |-> u[1]]

\* impl Into<Dimensions> for UVec2
IntoDimensions(u) == [kind |-> "Dim2d", width |-> u[1], height |-> u[2]]

VecIdle ==
    /\ vpc = "off"
    /\ input = <<0, 0>>
    /\ uvec2 = None
    /\ extent = None

VecInit ==
    /\ vpc = "from"
    /\ input \in U32Samples \X U32Samples
    /\ uvec2 = None
    /\ extent = None

notVec == <<triVars, manVars, ifVars>>

\* let dim: UVec2 = dim.into()
VecFrom ==
    /\ vpc = "from"
    /\ uvec2' = Some(UVec2From(input))
    /\ vpc' = "into"
    /\ UNCHANGED <<input, extent>>
    /\ UNCHANGED notVec

\* dim.into() as the Dimensions of StorageImage::new
VecInto ==
    /\ vpc = "into"
    /\ extent' = Some(IntoDimensions(uvec2.value))
    /\ vpc' = "done"
    /\ UNCHANGED <<input, uvec2>>
    /\ UNCHANGED notVec

VecNext ==
    \/ VecFrom
    \/ VecInto

\* ============================================================== Mandelbrot
\* Workgroups of the dispatch (the program dispatches 128 x 128 of them).
NumGroups == 6
Groups == 1..NumGroups

\* The statements of main, in the order of the source.
ManProgram ==
    <<"instance", "physical", "queue_family", "device", "queue",
      "image", "shader", "compute_pipeline", "set", "buf",
      "builder", "dispatch", "copy_image_to_buffer", "build",
      "execute", "flush", "wait", "read", "from_raw", "save">>

ManIndex(stmt) == CHOOSE i \in 1..Len(ManProgram) : ManProgram[i] = stmt

\* The statement that follows stmt in main ("done" after the last one).
ManAfter(stmt) ==
    IF ManIndex(stmt) = Len(ManProgram) THEN "done" ELSE ManProgram[ManIndex(stmt) + 1]

\* The statements that only make an object the later ones use.
ManSetupStmts ==
    {"instance", "physical", "queue_family", "device", "queue", "image", "shader",
     "compute_pipeline", "set", "buf", "builder", "build", "from_raw"}

NoGpu == [pending |-> <<>>, submitted |-> <<>>, ip |-> 1, image |-> {}, fence |-> FALSE]

ManIdle ==
    /\ mpc = "off"
    /\ trail = <<>>
    /\ gpu = NoGpu
    /\ buf = {}
    /\ buffer_content = None
    /\ file = None

ManInit ==
    /\ mpc = ManProgram[1]
    /\ trail = <<>>
    /\ gpu = NoGpu
    /\ buf = {}
    /\ buffer_content = None
    /\ file = None

notMan == <<triVars, ifVars, vecVars>>

\* The statement at mpc has run: main goes on to the next one.
ManDone(stmt) ==
    /\ trail' = Append(trail, stmt)
    /\ mpc' = ManAfter(stmt)

\* Instance::new .. CpuAccessibleBuffer::from_iter, AutoCommandBufferBuilder::new,
\* builder.build(), ImageBuffer::from_raw
ManSetup ==
    /\ mpc \in ManSetupStmts
    /\ ManDone(mpc)
    /\ UNCHANGED <<gpu, buf, buffer_content, file>>
    /\ UNCHANGED notMan

\* builder.dispatch([1024 / 8, 1024 / 8, 1], ..)
ManDispatch ==
    /\ mpc = "dispatch"
    /\ ManDone("dispatch")
    /\ gpu' = [gpu EXCEPT !.pending = Append(gpu.pending, "dispatch")]
    /\ UNCHANGED <<buf, buffer_content, file>>
    /\ UNCHANGED notMan

\* .copy_image_to_buffer(image.clone(), buf.clone())
ManCopyImageToBuffer ==
    /\ mpc = "copy_image_to_buffer"
    /\ ManDone("copy_image_to_buffer")
    /\ gpu' = [gpu EXCEPT !.pending = Append(gpu.pending, "copy_image_to_buffer")]
    /\ UNCHANGED <<buf, buffer_content, file>>
    /\ UNCHANGED notMan

\* command_buffer.execute(queue.clone()): a future, nothing submitted yet
ManExecute ==
    /\ mpc = "execute"
    /\ ManDone("execute")
    /\ UNCHANGED <<gpu, buf, buffer_content, file>>
    /\ UNCHANGED notMan

\* finished.then_signal_fence_and_flush(): the command buffer is submitted
ManFlush ==
    /\ mpc = "flush"
    /\ ManDone("flush")
    /\ gpu' = [gpu EXCEPT !.submitted = gpu.pending]
    /\ UNCHANGED <<buf, buffer_content, file>>
    /\ UNCHANGED notMan

\* The device runs one workgroup of the dispatch; the dispatch is over with
\* the last one.
GpuWorkgroup ==
    /\ gpu.ip <= Len(gpu.submitted)
    /\ gpu.submitted[gpu.ip] = "dispatch"
    /\ \E g \in Groups \ gpu.image :
          gpu' = [gpu EXCEPT !.image = gpu.image \cup {g},
                             !.ip = IF gpu.image \cup {g} = Groups THEN gpu.ip + 1
                                    ELSE gpu.ip]
    /\ UNCHANGED <<mpc, trail, buf, buffer_content, file>>
    /\ UNCHANGED notMan

\* The device runs the copy of the image to the buffer.
GpuCopy ==
    /\ gpu.ip <= Len(gpu.submitted)
    /\ gpu.submitted[gpu.ip] = "copy_image_to_buffer"
    /\ buf' = gpu.image
    /\ gpu' = [gpu EXCEPT !.ip = gpu.ip + 1]
    /\ UNCHANGED <<mpc, trail, buffer_content, file>>
    /\ UNCHANGED notMan

\* The device has run all that was submitted: it signals the fence.
GpuSignal ==
    /\ gpu.submitted # <<>>
    /\ gpu.ip > Len(gpu.submitted)
    /\ ~gpu.fence
    /\ gpu' = [gpu EXCEPT !.fence = TRUE]
    /\ UNCHANGED <<mpc, trail, buf, buffer_content, file>>
    /\ UNCHANGED notMan

\* ManWait returning at once, whether or not the fence is signaled.
ManWaitWithoutFence ==
    /\ mpc = "wait"
    /\ ManDone("wait")
    /\ UNCHANGED <<gpu, buf, buffer_content, file>>
    /\ UNCHANGED notMan

\* .wait(None): returns once the fence is signaled
ManWait ==
    /\ mpc = "wait"
    /\ gpu.fence
    /\ ManDone("wait")
    /\ UNCHANGED <<gpu, buf, buffer_content, file>>
    /\ UNCHANGED notMan

\* buf.read()
ManRead ==
    /\ mpc = "read"
    /\ ManDone("read")
    /\ buffer_content' = Some(buf)
    /\ UNCHANGED <<gpu, buf, file>>
    /\ UNCHANGED notMan

\* image.save("image.png")
ManSave ==
    /\ mpc = "save"
    /\ ManDone("save")
    /\ file' = buffer_content
    /\ UNCHANGED <<gpu, buf, buffer_content>>
    /\ UNCHANGED notMan

\* ManPanic with the error dropped instead of unwrapped: main goes on to the
\* statement after the one that failed.
ManPanicSkips ==
    /\ mpc \in {ManProgram[i] : i \in 1..Len(ManProgram)}
    /\ mpc' = ManAfter(mpc)
    /\ UNCHANGED <<trail, gpu, buf, buffer_content, file>>
    /\ UNCHANGED notMan

\* The expect() or unwrap() of the statement at mpc fails.
ManPanic ==
    /\ mpc \in {ManProgram[i] : i \in 1..Len(ManProgram)}
    /\ mpc' = "panicked"
    /\ UNCHANGED <<trail, gpu, buf, buffer_content, file>>
    /\ UNCHANGED notMan

ManNext ==
    \/ ManSetup
    \/ ManDispatch
    \/ ManCopyImageToBuffer
    \/ ManExecute
    \/ ManFlush
    \/ GpuWorkgroup
    \/ GpuCopy
    \/ GpuSignal
    \/ ManWait
    \/ ManRead
    \/ ManSave
    \/ ManPanic

\* ========================================================= specifications
\* The triangle render loop.
Init == TriInit /\ ManIdle /\ IfIdle /\ VecIdle
Spec == Init /\ [][TriNext]_vars
\* The Mandelbrot program.
MandelbrotInit == ManInit /\ TriIdle /\ IfIdle /\ VecIdle
SpecMandelbrot == MandelbrotInit /\ [][ManNext]_vars
\* Interface::new_compute over the device lists.
InterfaceInit == IfInit /\ TriIdle /\ ManIdle /\ VecIdle
SpecInterface == InterfaceInit /\ [][IfNext]_vars
\* The UVec2 conversions over the sampled pairs.
UVec2Init == VecInit /\ TriIdle /\ ManIdle /\ IfIdle
SpecUVec2 == UVec2Init /\ [][VecNext]_vars

\* ================================================================= claims
\* The handler is not running: the loop waits for its next event, or has
\* returned after a window-close.
BetweenEvents == pc \in {"idle", "exited"}

\* C1: when a redraw tick starts stale and the recreation of the swapchain
\* fails with UnsupportedDimensions, the loop does not crash: the tick ends
\* there, with nothing acquired, recorded, submitted or presented; the
\* swapchain, the framebuffers and the previous-frame future are the ones the
\* tick started with; the stale flag stays set; and the redraw tick that
\* follows starts stale and goes to the recreation again.
C1_UnsupportedDimensionsSkipsFrame ==
    /\ obs.recreate = "unsupported" =>
          /\ BetweenEvents
          /\ obs.stale_at_start
          /\ obs.panic = "none"
          /\ obs.acquire = "none" /\ obs.image = None
          /\ obs.recorded = None
          /\ obs.chain = None /\ obs.flush = "none" /\ queue = <<>>
          /\ Some(swapchain) = obs.swapchain_at_start
          /\ Some(framebuffers) = obs.framebuffers_at_start
          /\ previous_frame_end = obs.previous_at_start
          /\ previous_frame_end.some
          /\ recreate_swapchain
    /\ (obs.previous.recreate = "unsupported" /\ obs.panic # "cleanup_finished") =>
          /\ obs.stale_at_start
          /\ pc = "recreate" \/ obs.recreate # "none"

\* A tick that followed an UnsupportedDimensions tick recreated the swapchain.
C1_Witness ==
    /\ obs.previous.recreate = "unsupported"
    /\ obs.recreate = "ok"
    /\ pc = "idle"

\* C2: when the flush of a frame fails with OutOfDate, the stale flag is set
\* and the handler returns to the loop; when it fails with any other error,
\* the handler returns to the loop as well and one line about the failure
\* has been printed.  Neither failure panics.
C2_FlushErrorsAreNotFatal ==
    obs.flush \in {"OutOfDate", "Other"} =>
       /\ obs.panic = "none"
       /\ pc \in {"match", "idle", "exited"}
       /\ BetweenEvents =>
             /\ obs.flush = "OutOfDate" =>
                   /\ recreate_swapchain
                   /\ Len(stdout) = obs.stdout_at_start
             /\ obs.flush = "Other" =>
                   /\ Len(stdout) = obs.stdout_at_start + 1
                   /\ stdout[Len(stdout)] = "Failed to flush future"

\* An OutOfDate flush in one tick, another flush error in the next, and the
\* loop is waiting for its next event.
C2_Witness ==
    /\ obs.previous.flush = "OutOfDate"
    /\ obs.flush = "Other"
    /\ pc = "idle"
    /\ control_flow = "Poll"

\* The draw of the frame: the queue operation of the command buffer recorded
\* in this tick for the image acquired in this tick.
IsDrawOfTick(e) ==
    /\ e.op = "draw"
    /\ e.tick = ticks
    /\ obs.image = Some([swapchain |-> e.swapchain, image |-> e.image])

\* The present of the image acquired in this tick.
IsPresentOfTick(e) ==
    /\ e.op = "present"
    /\ obs.image = Some([swapchain |-> e.swapchain, image |-> e.image])

\* C3: an acquisition that reports OutOfDate, or that succeeds and reports
\* suboptimal, marks the swapchain stale and does not panic.  After
\* OutOfDate the tick is over with nothing recorded, submitted or presented.
\* After suboptimal the tick goes on with the acquired image: its draw is
\* recorded, and the chain that executes the draw and presents the image is
\* flushed in that tick (a flush that succeeds has given the device queue
\* the draw and then the present).
C3_AcquireOutOfDateOrSuboptimal ==
    /\ obs.acquire = "out_of_date" =>
          /\ BetweenEvents
          /\ obs.panic = "none"
          /\ recreate_swapchain
          /\ obs.image = None /\ obs.recorded = None
          /\ obs.chain = None /\ obs.flush = "none" /\ queue = <<>>
    /\ obs.acquire = "suboptimal" =>
          /\ obs.panic # "acquire"
          /\ recreate_swapchain
          /\ pc \in {"record", "submit", "match", "idle", "exited", "panicked"}
          /\ pc = "panicked" => obs.panic \in {"record", "submit"}
          /\ BetweenEvents =>
                /\ obs.recorded = Some([swapchain |-> obs.image.value.swapchain,
                                        image |-> obs.image.value.image])
                /\ obs.chain.some
                /\ obs.chain.value.kind = "present"
                /\ obs.chain.value.image = obs.image.value.image
                /\ obs.chain.value.swapchain = obs.image.value.swapchain
                /\ obs.chain.value.previous.kind = "execute"
                /\ obs.chain.value.previous.command_buffer.framebuffer = obs.recorded.value
                /\ obs.flush # "none"
                /\ obs.flush = "Ok" =>
                      /\ Len(queue) = 2
                      /\ IsDrawOfTick(queue[1])
                      /\ IsPresentOfTick(queue[2])

\* A suboptimal acquisition whose frame was drawn and presented, in a tick
\* that followed an OutOfDate acquisition.
C3_Witness ==
    /\ obs.previous.acquire = "out_of_date"
    /\ obs.acquire = "suboptimal"
    /\ obs.flush = "Ok"
    /\ Len(queue) = 2
    /\ pc = "idle"

\* The acquisition signal of the image acquired in the current tick.
AcquireOfTick ==
    [kind |-> "acquire", swapchain |-> obs.image.value.swapchain,
     image |-> obs.image.value.image, tick |-> ticks]

\* C4: the chain a tick flushes executes the frame's command buffer after the
\* join of (a) the future previous_frame_end held when the tick started and
\* (b) the acquisition signal of the image acquired in this tick, and
\* presents that image after the execution.  In the device queue every draw
\* is the draw of the image acquired in the same tick and waits for that
\* join, and every present comes after the draw of its own frame; nothing
\* reaches the queue in a tick that acquired no image.
C4_SubmissionOrder ==
    /\ obs.chain.some =>
          LET c == obs.chain.value
          IN  /\ obs.image.some
              /\ c.kind = "present"
              /\ c.image = obs.image.value.image
              /\ c.swapchain = obs.image.value.swapchain
              /\ c.previous.kind = "execute"
              /\ c.previous.command_buffer.tick = ticks
              /\ c.previous.command_buffer.framebuffer =
                    [swapchain |-> obs.image.value.swapchain,
                     image |-> obs.image.value.image]
              /\ c.previous.previous = Join(obs.previous_at_start.value, AcquireOfTick)
    /\ queue # <<>> => obs.image.some /\ obs.chain.some
    /\ \A i \in 1..Len(queue) :
          /\ queue[i].op = "draw" =>
                /\ IsDrawOfTick(queue[i])
                /\ queue[i].after = Join(obs.previous_at_start.value, AcquireOfTick)
          /\ queue[i].op = "present" =>
                /\ IsPresentOfTick(queue[i])
                /\ \E j \in 1..(i - 1) :
                      /\ queue[j].op = "draw"
                      /\ queue[j].image = queue[i].image
                      /\ queue[j].swapchain = queue[i].swapchain
                      /\ queue[i].after.kind = "execute"
                      /\ queue[i].after.command_buffer.tick = queue[j].tick
                      /\ queue[i].after.previous = queue[j].after

\* A frame drawn and presented after the fence future of the frame before it.
C4_Witness ==
    /\ obs.flush = "Ok"
    /\ Len(queue) = 2
    /\ obs.previous_at_start = Some([kind |-> "fence", frame |-> ticks - 1])
    /\ pc = "idle"

\* The handler is in a redraw tick, past the recreation of the swapchain.
InTickAfterRecreate == pc \in {"acquire", "record", "submit", "match"}

\* What C5 says of every state.
C5_RebuiltBeforeAcquire ==
    \* no acquisition is attempted while the swapchain is marked stale
    /\ obs.acquire \in {"ok", "suboptimal", "out_of_date"} => ~obs.stale_at_acquire
    \* a tick that started stale and went on to the acquisition has replaced
    \* the swapchain, the framebuffers and the viewport
    /\ (obs.stale_at_start /\ (InTickAfterRecreate \/ obs.acquire # "none")) =>
          /\ obs.recreate = "ok"
          /\ swapchain.id = obs.swapchain_at_start.value.id + 1
          /\ swapchain.dimensions = obs.dimensions.value
          /\ framebuffers = WindowSizeDependentSetup(SwapchainImages(swapchain))
          /\ framebuffers # obs.framebuffers_at_start.value
          /\ dynamic_state = Some(swapchain.dimensions)
    \* ... from the size the window has during the tick
    /\ (obs.recreate = "ok" /\ InTickAfterRecreate) => swapchain.dimensions = window_size
    \* the image acquired is an image of the swapchain the tick ends with
    /\ obs.image.some => obs.image.value.swapchain = swapchain.id

\* C5: the Resized handler sets the stale flag and changes nothing else; the
\* stale flag is cleared only in a step that replaces the swapchain; and a
\* redraw tick that starts stale has replaced the swapchain, the framebuffers
\* and the viewport, from the current window size, before it acquires an
\* image (a stale tick whose recreation fails acquires none).  So no image
\* is acquired from the swapchain a resize event found.
C5_ResizeRebuildsBeforeAcquire ==
    /\ []C5_RebuiltBeforeAcquire
    /\ [][(resize_pending /\ ~resize_pending') =>
             /\ recreate_swapchain'
             /\ UNCHANGED <<pc, control_flow, resources, previous_frame_end, window_size,
                            locals, queue, stdout, ticks, obs>>]_vars
    /\ [][(recreate_swapchain /\ ~recreate_swapchain') =>
             /\ swapchain'.id = swapchain.id + 1
             /\ swapchain'.dimensions = window_size
             /\ framebuffers' = WindowSizeDependentSetup(SwapchainImages(swapchain'))
             /\ dynamic_state' = Some(window_size)
             /\ obs'.image = None]_vars

\* A resize to another size was followed by a tick that rebuilt the swapchain
\* at the new size and then acquired, drew and presented an image of it.
C5_Witness ==
    /\ obs.stale_at_start
    /\ obs.recreate = "ok"
    /\ swapchain.dimensions # obs.swapchain_at_start.value.dimensions
    /\ obs.image = Some([swapchain |-> swapchain.id, image |-> 1])
    /\ obs.flush = "Ok"
    /\ pc = "idle"

\* One of the three fallible platform calls of the tick gave an error.
RecreateFailed == obs.recreate \in {"unsupported", "panic"}
AcquireFailed == obs.acquire \in {"out_of_date", "panic"}
FlushFailed == obs.flush \in {"OutOfDate", "Other"}

\* C6 as stated: after every error outcome of the recreation, of the
\* acquisition and of the flush the process keeps running.
C6_AsStated == (RecreateFailed \/ AcquireFailed \/ FlushFailed) => pc # "panicked"

\* C6 amended: UnsupportedDimensions from the recreation, OutOfDate from the
\* acquisition and every error of the flush leave the process running, and
\* the handler returns to the loop for its next event; any other error of
\* the recreation or of the acquisition is a panic, which ends the process.
C6_RecoverableErrorsKeepRunning ==
    /\ obs.recreate = "unsupported" => BetweenEvents /\ obs.panic = "none"
    /\ obs.acquire = "out_of_date" => BetweenEvents /\ obs.panic = "none"
    /\ FlushFailed => pc \in {"match", "idle", "exited"} /\ obs.panic = "none"
    /\ obs.recreate = "panic" => pc = "panicked" /\ obs.panic = "recreate"
    /\ obs.acquire = "panic" => pc = "panicked" /\ obs.panic = "acquire"
    /\ pc = "panicked" <=> obs.panic # "none"
    /\ pc = "panicked" => ~ENABLED TriNext
    /\ pc = "exited" => control_flow = "Exit"

\* The loop waits for its next event after an UnsupportedDimensions tick and
\* a tick whose flush was OutOfDate.
C6_Witness ==
    /\ obs.previous.recreate = "unsupported"
    /\ obs.flush = "OutOfDate"
    /\ pc = "idle"
    /\ control_flow = "Poll"

\* C7: only the handler of a window-close event sets *control_flow to Exit,
\* and doing so it changes neither the swapchain, the framebuffers, the stale
\* flag nor the previous-frame future and gives the device queue nothing;
\* the loop ends only after that, and once Exit is set the loop can end.
C7_CloseRequestsExit ==
    /\ [](/\ control_flow = "Exit" <=> obs.exit_requested_by = "CloseRequested"
          /\ obs.exit_requested_by \in {"none", "CloseRequested"}
          /\ pc = "exited" => control_flow = "Exit"
          /\ (control_flow = "Exit" /\ pc = "idle") => ENABLED LoopExit)
    /\ [][control_flow' # control_flow =>
             /\ control_flow' = "Exit"
             /\ pc = "idle" /\ pc' = "idle"
             /\ UNCHANGED <<recreate_swapchain, resources, previous_frame_end,
                            window_size, resize_pending, locals, queue, stdout, ticks>>]_vars
    /\ [][(pc' = "exited" /\ pc # "exited") => (pc = "idle" /\ control_flow = "Exit")]_vars
    /\ [][control_flow = "Exit" => control_flow' = "Exit"]_vars

\* The loop drew a frame, a window-close event came, and the loop ended.
C7_Witness ==
    /\ pc = "exited"
    /\ control_flow = "Exit"
    /\ obs.flush = "Ok"
    /\ obs.exit_requested_by = "CloseRequested"

\* The device has a graphics-capable queue family.
HasGraphics(families) == \E i \in 1..Len(families) : families[i]

\* The first device, in the order of the enumeration, that has a
\* graphics-capable queue family.
FirstGraphicsDevice(devs) ==
    IF \E d \in 1..Len(devs) : HasGraphics(devs[d])
    THEN Some(CHOOSE d \in 1..Len(devs) :
                 /\ HasGraphics(devs[d])
                 /\ \A e \in 1..(d - 1) : ~HasGraphics(devs[e]))
    ELSE None

\* new_compute has panicked.
IfPanicked ==
    ipc \in {"panicked: create vulkan instance", "panicked: no vulkan device available",
             "panicked: no queue family", "panicked: device"}

\* C8 as stated: new_compute selects the first device that has a
\* graphics-capable queue family, and fails for want of a device or of a queue
\* family only if no device has one.
C8_AsStated ==
    /\ ipc \in {"device_new", "done"} => physical = FirstGraphicsDevice(devices)
    /\ ipc \in {"panicked: no vulkan device available", "panicked: no queue family"} =>
          FirstGraphicsDevice(devices) = None

\* C8 amended: new_compute takes the first device of the enumeration,
\* whatever its queue families, and the first graphics-capable queue family
\* of that device; it panics if the enumeration is empty, and if that first
\* device has no graphics-capable queue family even when a later device has
\* one; after a panic nothing more runs (no fallback, no retry).
C8_FirstDeviceFirstGraphicsFamily ==
    /\ physical.some => Len(devices) >= 1 /\ physical = Some(1)
    /\ queue_family.some =>
          /\ physical.some
          /\ devices[1][queue_family.value]
          /\ \A j \in 1..(queue_family.value - 1) : ~devices[1][j]
    /\ ipc \in {"device_new", "done"} => physical.some /\ queue_family.some
    /\ ipc = "done" =>
          interface = Some([device |-> 1, queue_family |-> queue_family.value])
    /\ ipc # "done" => interface = None
    /\ ipc = "panicked: no vulkan device available" <=>
          (devices = <<>> /\ ipc \notin {"init_instance", "init_physical",
                                         "panicked: create vulkan instance"})
    /\ ipc = "panicked: no queue family" <=>
          /\ devices # <<>>
          /\ ~HasGraphics(devices[1])
          /\ ipc \notin {"init_instance", "init_physical", "find_queue_family",
                         "panicked: create vulkan instance"}
    /\ IfPanicked => ~ENABLED IfNext

\* new_compute panicked for want of a queue family although the second
\* device has a graphics-capable one.
C8_Witness ==
    /\ ipc = "panicked: no queue family"
    /\ Len(devices) = 2
    /\ HasGraphics(devices[2])

\* C9: the Dimensions made from the UVec2 made from (w, h) is a Dim2d with
\* width = w and height = h, so reading the pair back from it gives (w, h);
\* for w, h > 0, and for a zero extent too, which passes through unchecked.
C9_DimensionRoundTrip ==
    /\ vpc = "done" => extent.some
    /\ extent.some =>
          /\ extent.value.kind = "Dim2d"
          /\ extent.value.width = input[1]
          /\ extent.value.height = input[2]
          /\ <<extent.value.width, extent.value.height>> = input
          /\ (input[1] > 0 /\ input[2] > 0) =>
                (extent.value.width > 0 /\ extent.value.height > 0)

\* A pair with positive, different width and height was converted.
C9_Witness ==
    /\ vpc = "done"
    /\ input = <<3, ImageExtent>>
    /\ extent = Some([kind |-> "Dim2d", width |-> 3, height |-> ImageExtent])

\* stmt has run.
ManRan(stmt) == \E i \in 1..Len(trail) : trail[i] = stmt

\* C10: the statements of main run in the order of the source, each at most
\* once and all of them in a run that reaches the end: instance .. queue,
\* then image, shader, pipeline, descriptor set and buffer, then the
\* recording of the dispatch and of the copy, then the submission, then the
\* wait for the fence, then the read of the buffer, then the save.  The
\* position in main is a function of what has run (no branch).  The buffer is
\* read and image.png written only after the wait has returned, which is
\* after the fence was signaled, and what is read is the whole image.
C10_LinearOrder ==
    /\ Len(trail) <= Len(ManProgram)
    /\ \A i \in 1..Len(trail) : trail[i] = ManProgram[i]
    /\ mpc = "done" <=> trail = ManProgram
    /\ mpc \notin {"done", "panicked"} => mpc = ManProgram[Len(trail) + 1]
    /\ gpu.pending \in {<<>>, <<"dispatch">>, <<"dispatch", "copy_image_to_buffer">>}
    /\ ManRan("copy_image_to_buffer") <=> gpu.pending = <<"dispatch", "copy_image_to_buffer">>
    /\ gpu.submitted # <<>> <=> ManRan("flush")
    /\ gpu.submitted # <<>> => gpu.submitted = <<"dispatch", "copy_image_to_buffer">>
    /\ ManRan("wait") => gpu.fence /\ buf = Groups
    /\ buffer_content.some <=> ManRan("read")
    /\ buffer_content.some => ManRan("wait") /\ buffer_content.value = Groups
    /\ file.some <=> ManRan("save")
    /\ file.some => ManRan("wait") /\ ManRan("read") /\ file.value = Groups

\* The program ran to its end and image.png holds the whole image.
C10_Witness ==
    /\ mpc = "done"
    /\ file = Some(Groups)
    /\ gpu.fence

\* The statement of main whose expect() or unwrap() failed: the one after the
\* statements that ran.
ManFailedAt == ManProgram[Len(trail) + 1]

\* C11: a failure at any statement of the Mandelbrot main ends the process
\* at that statement.  The statements that ran are the first ones of main,
\* once each and in order (none ran after one that did not); the failing
\* statement left no result; once the process has ended no
\* statement runs, none is tried again, and neither what was read nor
\* image.png changes.  So image.png exists only in runs where every
\* statement before the save ran without failure.
C11_FailureTerminates ==
    /\ [](/\ Len(trail) <= Len(ManProgram)
          /\ \A i \in 1..Len(trail) : trail[i] = ManProgram[i]
          /\ mpc = "panicked" =>
               /\ Len(trail) < Len(ManProgram)
               /\ ~ManRan(ManFailedAt)
               /\ ManFailedAt = "save" => file = None
               /\ ManFailedAt = "read" => buffer_content = None
          /\ \A i, j \in 1..Len(trail) : trail[i] = trail[j] => i = j
          /\ file.some =>
               /\ mpc # "panicked"
               /\ \A i \in 1..(Len(ManProgram) - 1) : trail[i] = ManProgram[i])
    /\ [][/\ mpc = "panicked" =>
               /\ mpc' = "panicked"
               /\ trail' = trail
               /\ buffer_content' = buffer_content
               /\ file' = file
          /\ (mpc # "panicked" /\ mpc' = "panicked") =>
               /\ trail' = trail
               /\ gpu'.pending = gpu.pending /\ gpu'.submitted = gpu.submitted
               /\ buffer_content' = buffer_content
               /\ file' = file]_vars

\* The save failed after every statement before it had run: the buffer was
\* read whole and there is no image.png.
C11_Witness ==
    /\ mpc = "panicked"
    /\ ManFailedAt = "save"
    /\ buffer_content = Some(Groups)
    /\ file = None

\* The future the chain of the current tick was chained after: the first
\* half of the join its draw waits for.
ChainedAfter == obs.chain.value.previous.previous.first

\* The fence future of the frame of tick t.
FenceOfFrame(t) == [kind |-> "fence", frame |-> t]

\* C12: when the flush of a frame fails, with OutOfDate or with any other
\* error, the handler leaves previous_frame_end holding a now future, and
\* the chain of the next frame is chained after that now future, not after
\* anything of the failed frame.  When the flush succeeds the handler leaves
\* previous_frame_end holding the fence future of the frame just flushed,
\* and the chain of the next frame is chained after it.  The handling of a
\* flush error other than OutOfDate leaves the stale flag as it was; the
\* handling of OutOfDate sets it.
C12_FlushOutcomeSetsPreviousFrameEnd ==
    /\ []((BetweenEvents /\ FlushFailed) => previous_frame_end = Some(SyncNow))
    /\ []((BetweenEvents /\ obs.flush = "Ok") =>
             previous_frame_end = Some(FenceOfFrame(ticks)))
    /\ []((obs.chain.some /\ obs.previous.flush \in {"OutOfDate", "Other"}) =>
             /\ ChainedAfter = SyncNow
             /\ obs.previous_at_start = Some(SyncNow))
    /\ []((obs.chain.some /\ obs.previous.flush = "Ok") =>
             ChainedAfter = FenceOfFrame(ticks - 1))
    /\ [][(pc = "match" /\ future.value.result = "Other") =>
             /\ recreate_swapchain' = recreate_swapchain
             /\ previous_frame_end' = Some(SyncNow)]_vars
    /\ [][(pc = "match" /\ future.value.result = "OutOfDate") =>
             /\ recreate_swapchain'
             /\ previous_frame_end' = Some(SyncNow)]_vars
    /\ [][(pc = "match" /\ future.value.result = "Ok") =>
             /\ recreate_swapchain' = recreate_swapchain
             /\ previous_frame_end' = Some(FenceOfFrame(ticks))]_vars

\* A flush failed with an error other than OutOfDate while the swapchain was
\* not stale; the next frame was chained after a now future and flushed, and
\* the swapchain is still not stale.
C12_Witness ==
    /\ obs.previous.flush = "Other"
    /\ obs.recreate = "none"
    /\ obs.acquire = "ok"
    /\ obs.chain.some
    /\ ChainedAfter = SyncNow
    /\ obs.flush = "Ok"
    /\ previous_frame_end = Some(FenceOfFrame(ticks))
    /\ ~recreate_swapchain
    /\ pc = "idle"

\* C13: whenever the loop is about to call the handler, previous_frame_end
\* holds a future, whatever close, resize and redraw events came before and
\* however the recreations, acquisitions and flushes of the redraw ticks
\* ended.  So neither the unwrap of cleanup_finished nor the one of take()
\* ever fails.  previous_frame_end is empty only between the take() of a
\* tick and the match that refills it (or in a process that panicked in
\* between), and the early returns of a tick (UnsupportedDimensions,
\* OutOfDate at the acquisition) come before the take(): they leave
\* previous_frame_end as the tick found it and no chain was built.
C13_PreviousFrameEndIsSome ==
    /\ [](/\ pc \in {"idle", "exited"} => previous_frame_end.some
          /\ pc \in {"recreate", "acquire", "record", "submit"} =>
                /\ previous_frame_end.some
                /\ previous_frame_end = obs.previous_at_start
          /\ obs.panic \notin {"cleanup_finished", "take"}
          /\ ~previous_frame_end.some =>
                \/ pc = "match" /\ obs.chain.some
                \/ pc = "panicked" /\ obs.panic = "submit")
    /\ [][(pc \in {"recreate", "acquire"} /\ pc' = "idle") =>
             /\ previous_frame_end.some
             /\ previous_frame_end' = previous_frame_end
             /\ obs'.chain = None
             /\ queue' = <<>>]_vars

\* After a flush that failed, a tick that recreated the swapchain and
\* returned early at an OutOfDate acquisition, and a window-close: the loop
\* is about to end and previous_frame_end holds a future.
C13_Witness ==
    /\ obs.previous.flush = "Other"
    /\ obs.recreate = "ok"
    /\ obs.acquire = "out_of_date"
    /\ control_flow = "Exit"
    /\ pc = "idle"
    /\ previous_frame_end = Some(SyncNow)

\* The framebuffers are the ones window_size_dependent_setup makes from the
\* images of the current swapchain.
FramebuffersOfSwapchain == framebuffers = WindowSizeDependentSetup(SwapchainImages(swapchain))

\* C14: in a loop that goes on running, the swapchain and the framebuffers
\* are replaced only together, by the step of a redraw tick in which the
\* recreation succeeded, and the stale flag is cleared only by that step.
\* So whenever the loop runs the framebuffers are those of the images of the
\* current swapchain; the image a tick acquires is an image of the current
\* swapchain and its index selects a framebuffer of that swapchain and of
\* that image; and the command buffer is recorded on that framebuffer.
\* (Only a process that panicked inside window_size_dependent_setup holds a
\* new swapchain with the framebuffers of the old one; it acquires and
\* records nothing.)
C14_FramebuffersMatchSwapchain ==
    /\ [](/\ ~FramebuffersOfSwapchain =>
                /\ pc = "panicked"
                /\ obs.panic = "window_size_dependent_setup"
                /\ obs.image = None /\ obs.recorded = None
          /\ DOMAIN framebuffers = ImageIndices
          /\ image_num.some => image_num.value \in DOMAIN framebuffers
          /\ obs.image.some =>
                /\ FramebuffersOfSwapchain
                /\ obs.image.value.swapchain = swapchain.id
                /\ obs.image.value.image \in DOMAIN framebuffers
                /\ framebuffers[obs.image.value.image] =
                      [swapchain |-> swapchain.id, image |-> obs.image.value.image]
          /\ obs.recorded.some =>
                /\ obs.image.some
                /\ obs.recorded.value = framebuffers[obs.image.value.image]
                /\ obs.recorded.value.swapchain = swapchain.id
          /\ command_buffer.some =>
                command_buffer.value.framebuffer.swapchain = swapchain.id)
    /\ [][((swapchain' # swapchain \/ framebuffers' # framebuffers
             \/ (recreate_swapchain /\ ~recreate_swapchain')) /\ pc' # "panicked") =>
             /\ pc = "recreate" /\ pc' = "acquire"
             /\ obs'.recreate = "ok"
             /\ swapchain' # swapchain
             /\ framebuffers' # framebuffers
             /\ framebuffers' = WindowSizeDependentSetup(SwapchainImages(swapchain'))
             /\ recreate_swapchain /\ ~recreate_swapchain']_vars

\* The swapchain was replaced in two ticks, and in the second a frame was
\* recorded on the framebuffer of the image acquired from the third swapchain.
C14_Witness ==
    /\ swapchain.id = 3
    /\ obs.recreate = "ok"
    /\ obs.image.some
    /\ obs.recorded = Some([swapchain |-> 3, image |-> obs.image.value.image])
    /\ pc = "submit"

====
